---- MODULE Spec2Model ----
(***************************************************************************)
(* Model of the weekly digest script of the repository,                    *)
(*   src/automations/js/src/last_week_tonight.mjs   (label-grouping copy)  *)
(*   src/.github/workflows/discussion_ping.yml:40-244 (copy without it).   *)
(*                                                                         *)
(* Reading of the source.  The file does not load as written (`import core *)
(* form`, `if !(...)`, `await` inside functions not declared async), so    *)
(* the model follows the statements in the order they are written:         *)
(*  - main runs getEnvironmentVariables, getRepos, getDates, createReport, *)
(*    postActivities one after the other; every `await` is a suspension    *)
(*    point at which the awaited call either resolves or rejects;          *)
(*  - a name that a function uses but does not declare (org, startDate,    *)
(*    endDate, username, password) stands for the value the run computed   *)
(*    under that name; a name that no statement of the program declares    *)
(*    (sortedActivites, line 166) raises ReferenceError when evaluated;    *)
(*  - a parameter that the caller does not pass is undefined, and reading  *)
(*    a property of undefined raises TypeError;                            *)
(*  - an exception that leaves main ends the process with status 1.        *)
(* Strings are sequences of tokens: the fixed chunks of a template literal *)
(* are one token each, interpolated text is spliced in character by        *)
(* character.                                                              *)
(***************************************************************************)
EXTENDS Integers, Sequences, FiniteSets, TLC

VARIABLES
    variant,      \* "grouping" (last_week_tonight.mjs) or "plain" (the copy without grouping)
    env,          \* process.env: which of the three variables are set
    config,       \* Object.values(githubInfo.repos) of ../data/github.yml
    pc,           \* position of main
    now,          \* the clock, seconds since the epoch
    repos,        \* main: repos
    dates,        \* main: [startDate, endDate]
    idx,          \* createReport: position of `for (const repo of repos)`
    closedIssues, \* createReport: closedIssues of the current iteration
    reportData,   \* createReport: reportData
    calls,        \* every network call issued so far, with its outcome
    log,          \* lines written through core.error / core.info
    exitCode,     \* process.exitCode
    exitStatus,   \* status the process ended with, -1 while it runs
    thrown,       \* the exception that left main, "none" otherwise
    input,        \* argument of the function under study (function specifications)
    output        \* its result

mainVars == <<variant, env, config, pc, now, repos, dates, idx, closedIssues,
              reportData, calls, log, exitCode, exitStatus, thrown>>
vars == <<mainVars, input, output>>

-----------------------------------------------------------------------------
(* Bounds *)

MaxRepos == 2
MaxItems == 1
MaxElapsed == 1
MaxActivities == 3
MaxTitleLen == 4
BaseDay == 19716
DaySpan == 75

-----------------------------------------------------------------------------
(* Generic helpers *)

undefined == "undefined"

RECURSIVE Flat(_)
Flat(ss) == IF ss = <<>> THEN <<>> ELSE Head(ss) \o Flat(Tail(ss))

RECURSIVE Join(_, _)
Join(lines, sep) ==
    IF lines = <<>> THEN <<>>
    ELSE IF Len(lines) = 1 THEN Head(lines)
    ELSE Head(lines) \o <<sep>> \o Join(Tail(lines), sep)

SeqsUpTo(S, n) == UNION {[1..k -> S] : k \in 0..n}

-----------------------------------------------------------------------------
(* getEnvironmentVariables, lines 21-42 *)

EnvNames == {"ACCESS_TOKEN", "MAKE_USERNAME", "MAKE_PASSWORD"}
EnvValue == [ACCESS_TOKEN |-> "pat", MAKE_USERNAME |-> "user", MAKE_PASSWORD |-> "pw"]
Envs == {e \in [EnvNames -> {undefined, "pat", "user", "pw"}] :
            \A n \in EnvNames : e[n] \in {undefined, EnvValue[n]}}

\* JavaScript truthiness of an environment value
Truthy(v) == v # undefined

\* core.notice(msg): `core` is the parameter of getEnvironmentVariables
notice(core, msg) ==
    IF core = undefined THEN [thrown |-> "TypeError"] ELSE [thrown |-> "none"]

\* A variant that only insists on the access token.
getEnvironmentVariables_patOnly(core) ==
    LET pat == env["ACCESS_TOKEN"]
        username == env["MAKE_USERNAME"]
        password == env["MAKE_PASSWORD"]
    IN  IF ~Truthy(pat)
        THEN IF core = undefined THEN [kind |-> "throw", error |-> "TypeError"]
             ELSE [kind |-> "exit", status |-> 1]
        ELSE [kind |-> "return", value |-> <<pat, username, password>>]

\* Result: the statement that ends the call ("throw", "exit" or "return").
getEnvironmentVariables(core) ==
    LET pat == env["ACCESS_TOKEN"]
        username == env["MAKE_USERNAME"]
        password == env["MAKE_PASSWORD"]
        missing == ~Truthy(pat) \/ ~Truthy(username) \/ ~Truthy(password)
    IN  IF missing /\ notice(core, "required").thrown # "none"
        THEN [kind |-> "throw", error |-> "TypeError"]
        ELSE IF ~(Truthy(pat) /\ Truthy(username) /\ Truthy(password))
        THEN [kind |-> "exit", status |-> 1]
        ELSE [kind |-> "return", value |-> <<pat, username, password>>]

-----------------------------------------------------------------------------
(* getRepos, lines 52-58 *)

org == "WordPress"
RepoNames == {"api", "frontend"}
Configs == SeqsUpTo(RepoNames, MaxRepos)

getRepos == config

-----------------------------------------------------------------------------
(* getDates, lines 65-74.  The clock counts seconds. *)

SecondsPerDay == 24 * 60 * 60

msInWeeks(weeks) == weeks * 7 * SecondsPerDay

\* Date.prototype.toISOString().split('T')[0]: the UTC calendar date of an
\* instant, <<year, month, day>>.
toISODate(t) ==
    LET z   == (t \div SecondsPerDay) + 719468
        era == z \div 146097
        doe == z - era * 146097
        yoe == (doe - (doe \div 1460) + (doe \div 36524) - (doe \div 146096)) \div 365
        doy == doe - (365 * yoe + (yoe \div 4) - (yoe \div 100))
        mp  == (5 * doy + 2) \div 153
        d   == doy - ((153 * mp + 2) \div 5) + 1
        m   == IF mp < 10 THEN mp + 3 ELSE mp - 9
        y   == yoe + era * 400 + (IF m <= 2 THEN 1 ELSE 0)
    IN  <<y, m, d>>

\* t1 is the clock at the first `new Date()` (line 68), t2 at the second (line 70).
getDates(t1, t2) ==
    [startDate |-> toISODate(t2 - msInWeeks(1)), endDate |-> toISODate(t1)]

-----------------------------------------------------------------------------
(* Search queries, lines 77-80 *)

mergedPrsQ(repo, startDate) ==
    <<"repo:", org, "/", repo, " is:pr is:merged merged:>=", startDate>>
closedIssuesQ(repo, startDate) ==
    <<"repo:", org, "/", repo, " is:issue is:closed closed:>=", startDate>>

-----------------------------------------------------------------------------
(* Items returned by the search API *)

stackPrefix == "stack:"
unlabeledTitle == <<"Unlabeled">>

StackApi == <<"stack:", "api">>
StackDocs == <<"stack:", "docs">>
Bug == <<"bug">>
NoStack == <<"no-", "stack:", "x">>

Item(n, title, labels) ==
    [html_url |-> <<"https://x/", n>>, number |-> n, title |-> title, labels |-> labels]

\* What the search API has to return: pull requests and issues.
PullRequests == { Item("1", <<"F", "<", "b", ">">>, <<Bug, StackApi, StackDocs>>) }
Issues == { Item("2", <<"a", "&", "b">>, <<>>) }

-----------------------------------------------------------------------------
(* escapeHtml of ./utils/html.mjs (imported on line 14) *)

escapeChar(c) ==
    CASE c = "&"  -> <<"&", "a", "m", "p", ";">>
      [] c = "<"  -> <<"&", "l", "t", ";">>
      [] c = ">"  -> <<"&", "g", "t", ";">>
      [] c = "\"" -> <<"&", "q", "u", "o", "t", ";">>
      [] c = "'"  -> <<"&", "#", "3", "9", ";">>
      [] OTHER    -> <<c>>

escapeHtml(text) == Flat([i \in 1..Len(text) |-> escapeChar(text[i])])

-----------------------------------------------------------------------------
(* getItemsHtml, lines 103-117, and getRepoHtml, lines 127-133 *)

\* One <li> line, lines 110-113.
liLine(href, number, title) ==
    <<"<li><a href=\"">> \o href \o <<"\">", "#", number, "</a>: ">> \o title

\* A variant that inserts the title as it is.
getItemsHtml_raw(title, items) ==
    IF Len(items) = 0 THEN <<>>
    ELSE <<  <<"<h3>", title, "</h3>">>, <<"<ul>">>  >>
         \o [i \in 1..Len(items) |->
                liLine(items[i].html_url, items[i].number, items[i].title)]
         \o << <<"</ul>">> >>

\* A variant without the early return for an empty list.
getItemsHtml_always(title, items) ==
    <<  <<"<h3>", title, "</h3>">>, <<"<ul>">>  >>
    \o [i \in 1..Len(items) |->
           liLine(items[i].html_url, items[i].number, escapeHtml(items[i].title))]
    \o << <<"</ul>">> >>

\* The lines of one section.
getItemsHtml(title, items) ==
    IF Len(items) = 0 THEN <<>>
    ELSE <<  <<"<h3>", title, "</h3>">>, <<"<ul>">>  >>
         \o [i \in 1..Len(items) |->
                liLine(items[i].html_url, items[i].number, escapeHtml(items[i].title))]
         \o << <<"</ul>">> >>

\* The lines of one repository; r is {repo, mergedPrs, closedIssues}.
getRepoHtml(r) ==
    << <<"<h2><a href=\"https://github.com/", org, "/", r.repo, "\">", r.repo, "</a></h2>">> >>
    \o getItemsHtml("Merged PRs", r.mergedPrs)
    \o getItemsHtml("Closed issues", r.closedIssues)

-----------------------------------------------------------------------------
(* addActivity, lines 142-147, and sortActivitiesByLabel, lines 154-172.    *)
(* The object that collects the groups is a sequence of [label, items] in   *)
(* the order in which its keys were created.                                *)

undeclared == "undeclared"

hasOwn(activityList, label) == \E k \in 1..Len(activityList) : activityList[k].label = label

addActivity(activity, activityList, label) ==
    LET withKey == IF ~hasOwn(activityList, label)
                   THEN Append(activityList, [label |-> label, items |-> <<>>])
                   ELSE activityList
    IN  [k \in 1..Len(withKey) |->
            IF withKey[k].label = label
            THEN [withKey[k] EXCEPT !.items = Append(@, activity)]
            ELSE withKey[k]]

\* str.includes(sub), on token sequences
includes(str, sub) == \E k \in 1..Len(str) : str[k] = sub

\* The name written on line 166; no statement of the program declares it.
sortedActivites == undeclared

\* Lines 165-167: the loop over currLabels from position j, adding to `target`.
RECURSIVE addToEach(_, _, _, _)
addToEach(activity, target, currLabels, j) ==
    IF j > Len(currLabels) THEN [kind |-> "done"]
    ELSE IF target = undeclared THEN [kind |-> "throw", error |-> "ReferenceError"]
    ELSE addToEach(activity, addActivity(activity, target, currLabels[j]), currLabels, j + 1)

\* Lines 159-169 from position i with the groups collected so far; line 172
\* ends the function without a return statement.
RECURSIVE sortLoop(_, _, _)
sortLoop(activities, i, sortedActivities) ==
    IF i > Len(activities)
    THEN [kind |-> "return", value |-> undefined, sortedActivities |-> sortedActivities]
    ELSE IF "labels" \notin DOMAIN activities[i]
    THEN [kind |-> "throw", error |-> "TypeError", sortedActivities |-> sortedActivities]
    ELSE LET currLabels == SelectSeq(activities[i].labels,
                                     LAMBDA str : includes(str, stackPrefix))
         IN  IF Len(currLabels) = 0
             THEN sortLoop(activities, i + 1,
                           addActivity(activities[i], sortedActivities, unlabeledTitle))
             ELSE LET r == addToEach(activities[i], sortedActivites, currLabels, 1)
                  IN  IF r.kind = "throw"
                      THEN [kind |-> "throw", error |-> r.error,
                            sortedActivities |-> sortedActivities]
                      ELSE sortLoop(activities, i + 1, sortedActivities)

sortActivitiesByLabel(activities) == sortLoop(activities, 1, <<>>)

-----------------------------------------------------------------------------
(* postActivities, lines 186-213 *)

report(activities) == Join(Flat([i \in 1..Len(activities) |-> getRepoHtml(activities[i])]), "\n")

\* The request of lines 193-212, or the exception raised before it.
postActivities(activities, username, password, startDate, endDate) ==
    LET sortedReport == IF variant = "grouping"
                        THEN sortActivitiesByLabel(activities)
                        ELSE [kind |-> "return", value |-> undefined]
        token == <<"base64", username, ":", password>>
    IN  IF sortedReport.kind = "throw"
        THEN [kind |-> "throw", error |-> sortedReport.error]
        ELSE [kind |-> "request",
              method |-> "POST",
              url |-> <<"https://make.wordpress.org/openverse/wp-json/wp/v2/", "posts">>,
              headers |-> [Authorization |-> <<"Basic ">> \o token],
              data |-> [title |-> <<"A week in Openverse: ", startDate, " - ", endDate>>,
                        slug |-> <<"last-week-openverse-", startDate, "-", endDate>>,
                        excerpt |-> <<"The developments in Openverse between ", startDate,
                                      " and ", endDate>>,
                        content |-> report(activities),
                        status |-> "publish",
                        tags |-> <<3, 5>>]]

-----------------------------------------------------------------------------
(* The run of main, lines 221-233, with createReport, lines 241-256 *)

NoResponse == [status |-> 0, items |-> <<>>, data |-> "none"]

SearchCall(which, repo, q) ==
    [api |-> "search", which |-> which, repo |-> repo, request |-> q,
     state |-> "pending", response |-> NoResponse]
PostCall(req) ==
    [api |-> "post", which |-> "post", repo |-> "none", request |-> req,
     state |-> "pending", response |-> NoResponse]

\* The call main is suspended on is the last one; it settles.
Settle(state, response) ==
    [calls EXCEPT ![Len(calls)] = [@ EXCEPT !.state = state, !.response = response]]

\* The CMS answers with one of these; its body is opaque to the script.
PostStatuses == {200, 201, 403, 500}
ResponseBody(status) ==
    CASE status = 200 -> "body-200"
      [] status = 201 -> "body-201"
      [] status = 403 -> "body-403"
      [] OTHER        -> "body-5xx"
\* axios settles the promise by its default validateStatus.
validateStatus(status) == status >= 200 /\ status < 300

MainClock == { BaseDay * SecondsPerDay + (SecondsPerDay \div 2),
               BaseDay * SecondsPerDay + SecondsPerDay - 1 }

NoDates == [startDate |-> <<0, 0, 0>>, endDate |-> <<0, 0, 0>>]

MainInit ==
    /\ variant \in {"grouping", "plain"}
    /\ env \in Envs
    /\ config \in Configs
    /\ now \in MainClock
    /\ pc = "getEnvironmentVariables"
    /\ repos = <<>>
    /\ dates = NoDates
    /\ idx = 0
    /\ closedIssues = <<>>
    /\ reportData = <<>>
    /\ calls = <<>>
    /\ log = <<>>
    /\ exitCode = 0
    /\ exitStatus = -1
    /\ thrown = "none"
    /\ input = <<>>
    /\ output = <<>>

\* An exception leaves main: the promise of main rejects and the process fails.
Throw(error) ==
    /\ pc' = "thrown"
    /\ thrown' = error
    /\ exitStatus' = 1

\* Line 223: main passes no argument, so `core` is undefined in the callee.
GetEnvironmentVariables ==
    /\ pc = "getEnvironmentVariables"
    /\ LET r == getEnvironmentVariables(undefined)
       IN  CASE r.kind = "throw"  -> Throw(r.error)
             [] r.kind = "exit"   -> /\ pc' = "exited"
                                     /\ exitStatus' = r.status
                                     /\ UNCHANGED thrown
             [] r.kind = "return" -> /\ pc' = "getRepos"
                                     /\ UNCHANGED <<thrown, exitStatus>>
    /\ UNCHANGED <<variant, env, config, now, repos, dates, idx, closedIssues,
                   reportData, calls, log, exitCode, input, output>>

\* Line 224.
GetRepos ==
    /\ pc = "getRepos"
    /\ repos' = getRepos
    /\ pc' = "getDates"
    /\ UNCHANGED <<variant, env, config, now, dates, idx, closedIssues, reportData,
                   calls, log, exitCode, exitStatus, thrown, input, output>>

\* Line 225: the clock is read twice, `elapsed` apart.
GetDates ==
    /\ pc = "getDates"
    /\ \E elapsed \in 0..MaxElapsed :
          /\ dates' = getDates(now, now + elapsed)
          /\ now' = now + elapsed
    /\ idx' = 1
    /\ reportData' = <<>>
    /\ pc' = "createReport"
    /\ UNCHANGED <<variant, env, config, repos, closedIssues, calls, log,
                   exitCode, exitStatus, thrown, input, output>>

\* Lines 244-247: the next repo's closed-issues query is sent.
IssueClosedIssuesQuery ==
    /\ pc = "createReport"
    /\ idx <= Len(repos)
    /\ calls' = Append(calls, SearchCall("closedIssues", repos[idx],
                                         closedIssuesQ(repos[idx], dates.startDate)))
    /\ pc' = "awaitClosedIssues"
    /\ UNCHANGED <<variant, env, config, now, repos, dates, idx, closedIssues,
                   reportData, log, exitCode, exitStatus, thrown, input, output>>

\* Lines 245-250: the closed-issues query resolves; the merged-PRs query is sent.
ClosedIssuesResolved ==
    /\ pc = "awaitClosedIssues"
    /\ \E items \in SeqsUpTo(Issues, MaxItems) :
          /\ closedIssues' = items
          /\ calls' = Append(Settle("resolved", [NoResponse EXCEPT !.status = 200,
                                                                 !.items = items]),
                             SearchCall("mergedPrs", repos[idx],
                                        mergedPrsQ(repos[idx], dates.startDate)))
    /\ pc' = "awaitMergedPrs"
    /\ UNCHANGED <<variant, env, config, now, repos, dates, idx, reportData, log,
                   exitCode, exitStatus, thrown, input, output>>

\* Line 251.
shouldPush_both(closedIssues_, mergedPrs) == Len(closedIssues_) > 0 /\ Len(mergedPrs) > 0
shouldPush(closedIssues_, mergedPrs) == Len(closedIssues_) > 0 \/ Len(mergedPrs) > 0

\* Lines 248-253: the merged-PRs query resolves; the loop moves on.
MergedPrsResolved ==
    /\ pc = "awaitMergedPrs"
    /\ \E mergedPrs \in SeqsUpTo(PullRequests, MaxItems) :
          /\ calls' = Settle("resolved", [NoResponse EXCEPT !.status = 200,
                                                          !.items = mergedPrs])
          /\ reportData' =
                IF shouldPush(closedIssues, mergedPrs)
                THEN Append(reportData, [repo |-> repos[idx],
                                         closedIssues |-> closedIssues,
                                         mergedPrs |-> mergedPrs])
                ELSE reportData
    /\ idx' = idx + 1
    /\ closedIssues' = <<>>
    /\ pc' = "createReport"
    /\ UNCHANGED <<variant, env, config, now, repos, dates, log, exitCode,
                   exitStatus, thrown, input, output>>

\* A variant in which a failed query counts as an empty result.
SearchRejected_swallowed ==
    /\ pc \in {"awaitClosedIssues", "awaitMergedPrs"}
    /\ calls' = Settle("rejected", [NoResponse EXCEPT !.status = 403])
    /\ idx' = idx + 1
    /\ closedIssues' = <<>>
    /\ pc' = "createReport"
    /\ UNCHANGED <<variant, env, config, now, repos, dates, reportData, log, exitCode,
                   exitStatus, thrown, input, output>>

\* Lines 246, 249: a query rejects; nothing catches it in createReport or main.
SearchRejected ==
    /\ pc \in {"awaitClosedIssues", "awaitMergedPrs"}
    /\ calls' = Settle("rejected", [NoResponse EXCEPT !.status = 403])
    /\ Throw("RequestError")
    /\ UNCHANGED <<variant, env, config, now, repos, dates, idx, closedIssues,
                   reportData, log, exitCode, input, output>>

\* A variant that does not wait for the loop of createReport to finish.
PostActivities_early ==
    /\ pc = "createReport"
    /\ LET r == postActivities(reportData, env["MAKE_USERNAME"], env["MAKE_PASSWORD"],
                               dates.startDate, dates.endDate)
       IN  IF r.kind = "throw"
           THEN /\ Throw(r.error)
                /\ UNCHANGED calls
           ELSE /\ calls' = Append(calls, PostCall(r))
                /\ pc' = "awaitPost"
                /\ UNCHANGED <<thrown, exitStatus>>
    /\ UNCHANGED <<variant, env, config, now, repos, dates, idx, closedIssues,
                   reportData, log, exitCode, input, output>>

\* Lines 255 and 226-227: createReport returns, postActivities runs up to the
\* request, or to the exception raised while grouping.
PostActivities ==
    /\ pc = "createReport"
    /\ idx > Len(repos)
    /\ LET r == postActivities(reportData, env["MAKE_USERNAME"], env["MAKE_PASSWORD"],
                               dates.startDate, dates.endDate)
       IN  IF r.kind = "throw"
           THEN /\ Throw(r.error)
                /\ UNCHANGED calls
           ELSE /\ calls' = Append(calls, PostCall(r))
                /\ pc' = "awaitPost"
                /\ UNCHANGED <<thrown, exitStatus>>
    /\ UNCHANGED <<variant, env, config, now, repos, dates, idx, closedIssues,
                   reportData, log, exitCode, input, output>>

\* Lines 227-233: the request resolves with a 2xx status.
PostResolved ==
    /\ pc = "awaitPost"
    /\ \E status \in PostStatuses :
          /\ validateStatus(status)
          /\ LET res == [NoResponse EXCEPT !.status = status,
                                           !.data = ResponseBody(status)]
                 failed == res.status # 201
                 code == IF failed THEN 1 ELSE exitCode
             IN  /\ calls' = Settle("resolved", res)
                 /\ log' = (IF failed
                            THEN Append(log, [level |-> "error",
                                  text |-> <<"Create post request failed. See the logs.">>])
                            ELSE log)
                           \o <<[level |-> "info", text |-> <<"JSON", res.data>>]>>
                 /\ exitCode' = code
                 /\ exitStatus' = code
    /\ pc' = "returned"
    /\ UNCHANGED <<variant, env, config, now, repos, dates, idx, closedIssues,
                   reportData, thrown, input, output>>

\* Line 227: the request rejects (any other status); nothing catches it.
PostRejected ==
    /\ pc = "awaitPost"
    /\ \E status \in PostStatuses :
          /\ ~validateStatus(status)
          /\ calls' = Settle("rejected", [NoResponse EXCEPT !.status = status,
                                                          !.data = ResponseBody(status)])
    /\ Throw("AxiosError")
    /\ UNCHANGED <<variant, env, config, now, repos, dates, idx, closedIssues,
                   reportData, log, exitCode, input, output>>

MainNext ==
    \/ GetEnvironmentVariables
    \/ GetRepos
    \/ GetDates
    \/ IssueClosedIssuesQuery
    \/ ClosedIssuesResolved
    \/ MergedPrsResolved
    \/ SearchRejected
    \/ PostActivities
    \/ PostResolved
    \/ PostRejected

Spec == MainInit /\ [][MainNext]_vars

-----------------------------------------------------------------------------
(* The functions on their own: the argument is drawn from a bounded set and  *)
(* one step applies the function.                                           *)

IdleMain ==
    /\ variant = "grouping"
    /\ env = EnvValue
    /\ config = <<>>
    /\ now = 0
    /\ repos = <<>>
    /\ dates = NoDates
    /\ idx = 0
    /\ closedIssues = <<>>
    /\ reportData = <<>>
    /\ calls = <<>>
    /\ log = <<>>
    /\ exitCode = 0
    /\ exitStatus = -1
    /\ thrown = "none"

Applied == pc = "applied"

(* getDates *)

ClockReads == { [t1 |-> day * SecondsPerDay + s, t2 |-> day * SecondsPerDay + s + elapsed] :
                   day \in BaseDay..(BaseDay + DaySpan),
                   s \in {0, SecondsPerDay \div 2, SecondsPerDay - 1},
                   elapsed \in 0..MaxElapsed }

DatesInit == IdleMain /\ pc = "getDates()" /\ input \in ClockReads /\ output = <<>>

ApplyGetDates ==
    /\ pc = "getDates()"
    /\ output' = getDates(input.t1, input.t2)
    /\ pc' = "applied"
    /\ UNCHANGED <<variant, env, config, now, repos, dates, idx, closedIssues,
                   reportData, calls, log, exitCode, exitStatus, thrown, input>>

SpecDates == DatesInit /\ [][ApplyGetDates]_vars

(* sortActivitiesByLabel *)

GroupItems == { Item("1", <<"a">>, <<>>),
                Item("2", <<"b">>, <<Bug>>),
                Item("3", <<"c">>, <<StackApi>>),
                Item("4", <<"d">>, <<Bug, StackDocs, StackApi>>),
                Item("5", <<"e">>, <<NoStack>>) }

GroupInit ==
    /\ IdleMain
    /\ pc = "sortActivitiesByLabel()"
    /\ input \in SeqsUpTo(GroupItems, MaxActivities)
    /\ output = <<>>

ApplySortActivitiesByLabel ==
    /\ pc = "sortActivitiesByLabel()"
    /\ output' = sortActivitiesByLabel(input)
    /\ pc' = "applied"
    /\ UNCHANGED <<variant, env, config, now, repos, dates, idx, closedIssues,
                   reportData, calls, log, exitCode, exitStatus, thrown, input>>

SpecGroup == GroupInit /\ [][ApplySortActivitiesByLabel]_vars

(* The rendering of one title *)

Alphabet == {"a", "<", ">", "&", "\"", "'", "l", "t", ";"}

TitleInit ==
    /\ IdleMain
    /\ pc = "report()"
    /\ input \in SeqsUpTo(Alphabet, MaxTitleLen)
    /\ output = <<>>

ApplyReport ==
    /\ pc = "report()"
    /\ output' = report(<< [repo |-> "api",
                            mergedPrs |-> <<Item("1", input, <<>>)>>,
                            closedIssues |-> <<>>] >>)
    /\ pc' = "applied"
    /\ UNCHANGED <<variant, env, config, now, repos, dates, idx, closedIssues,
                   reportData, calls, log, exitCode, exitStatus, thrown, input>>

SpecTitle == TitleInit /\ [][ApplyReport]_vars

-----------------------------------------------------------------------------
(* Properties of the run of main *)

Ended == pc \in {"thrown", "exited", "returned"}
SomeMissing == \E n \in EnvNames : env[n] = undefined
Posts == {i \in 1..Len(calls) : calls[i].api = "post"}
Searches == {i \in 1..Len(calls) : calls[i].api = "search"}

\* C1: whenever one of ACCESS_TOKEN, MAKE_USERNAME, MAKE_PASSWORD is absent,
\* the run makes no network call at any point, and once main has taken its
\* first step the process has ended with status 1.
C1_MissingCredentialNoNetwork ==
    SomeMissing =>
        /\ calls = <<>>
        /\ pc # "getEnvironmentVariables" => (Ended /\ exitStatus = 1)

\* A run that ended for a missing password alone.
C1_Witness ==
    /\ env["ACCESS_TOKEN"] # undefined
    /\ env["MAKE_USERNAME"] # undefined
    /\ env["MAKE_PASSWORD"] = undefined
    /\ Len(config) > 0
    /\ Ended
    /\ exitStatus = 1
    /\ calls = <<>>

SearchFailed == \E i \in Searches : calls[i].state = "rejected"

\* C2: once a search query (closed issues or merged PRs, of any repo) has
\* failed, the run has ended with a non-zero status and has issued no POST.
C2_FailedQueryAborts ==
    SearchFailed =>
        /\ Posts = {}
        /\ Ended
        /\ exitStatus # 0

\* The merged-PRs query of the second repo failed after three queries succeeded.
C2_Witness ==
    /\ Len(calls) = 4
    /\ calls[3].state = "resolved"
    /\ calls[4].which = "mergedPrs"
    /\ calls[4].state = "rejected"
    /\ Len(reportData) = 1
    /\ Ended
    /\ exitStatus = 1

\* The run reached the publish step and the CMS has answered.
PostAnswered == \E i \in Posts : calls[i].state # "pending"
PostAnswer == calls[Len(calls)].response
BodyLogged(body) == \E k \in 1..Len(log) : log[k].text = <<"JSON", body>>

\* C3: in a run in which the CMS answered the POST, the exit status is zero
\* exactly if the answer was 201, and the response body is in the log whatever
\* the status was.
C3_ExitStatusAndBodyLogged ==
    PostAnswered =>
        /\ (exitStatus = 0) <=> (PostAnswer.status = 201)
        /\ BodyLogged(PostAnswer.data)

\* s occurs in t as a contiguous part
Occurs(s, t) ==
    \E off \in 0..(Len(t) - Len(s)) : \A k \in 1..Len(s) : t[off + k] = s[k]
InLog(text) == text = <<>> \/ \E k \in 1..Len(log) : Occurs(text, log[k].text)

\* C4: when the CMS rejected the POST (it answered 403, say), the run ends
\* with status 1 and the content rendered for the post is in the log.
C4_RejectedPostKeepsDigestInLog ==
    (PostAnswered /\ PostAnswer.status >= 400) =>
        /\ exitStatus = 1
        /\ InLog(calls[Len(calls)].request.data.content)

-----------------------------------------------------------------------------
(* Properties of createReport and of the posted content *)

\* What the search API returned for the i-th configured repo.
Fetched(i) ==
    [repo |-> repos[i],
     closedIssues |-> calls[2 * i - 1].response.items,
     mergedPrs |-> calls[2 * i].response.items]
HasItems(r) == Len(r.closedIssues) + Len(r.mergedPrs) >= 1

CreateReportReturned == idx > Len(repos)

\* C5: when all queries succeeded, the result of createReport is the list of
\* configured repos in their order, without those for which both queries
\* returned nothing, each with the items returned for it; every entry has at
\* least one item.
C5_ReportIsFilteredInputOrder ==
    CreateReportReturned =>
        /\ reportData = SelectSeq([i \in 1..Len(repos) |-> Fetched(i)], HasItems)
        /\ \A k \in 1..Len(reportData) : HasItems(reportData[k])

\* Two repos were queried; the first had nothing, the second only a merged PR.
C5_Witness ==
    /\ CreateReportReturned
    /\ Len(repos) = 2
    /\ ~HasItems(Fetched(1))
    /\ Len(Fetched(2).closedIssues) = 0
    /\ Len(Fetched(2).mergedPrs) = 1
    /\ Len(reportData) = 1
    /\ reportData[1].repo = repos[2]

\* The lines of a text: the parts between "\n" tokens.
Split(text) ==
    LET breaks == SelectSeq([i \in 1..Len(text) |-> i], LAMBDA i : text[i] = "\n")
        from(k) == IF k = 1 THEN 1 ELSE breaks[k - 1] + 1
        to(k) == IF k > Len(breaks) THEN Len(text) ELSE breaks[k] - 1
    IN  [k \in 1..(Len(breaks) + 1) |-> SubSeq(text, from(k), to(k))]

IsH2(line) == line[1] = "<h2><a href=\"https://github.com/"
IsH3(line) == line[1] = "<h3>"
IsLi(line) == line[1] = "<li><a href=\""
Headings(lines) == LET h3 == SelectSeq(lines, IsH3) IN [j \in 1..Len(h3) |-> h3[j][2]]
Active == SelectSeq([i \in 1..Len(repos) |-> i], LAMBDA i : HasItems(Fetched(i)))
PostedContent == calls[Len(calls)].request.data.content
\* The positions of the <h2> lines.
H2At(lines) == SelectSeq([i \in 1..Len(lines) |-> i], LAMBDA i : IsH2(lines[i]))
\* The lines of the k-th fragment, after its <h2> line.
Fragment(lines, h2At, k) ==
    SubSeq(lines, h2At[k] + 1, IF k < Len(h2At) THEN h2At[k + 1] - 1 ELSE Len(lines))

\* C8: in the posted content there is one fragment per repo that had items,
\* in the order of the configured repos; a fragment has the heading
\* 'Merged PRs' exactly if the repo had a merged PR and 'Closed issues'
\* exactly if it had a closed issue, in this order, each followed by its
\* list with one entry per item; a repo that had no item is not mentioned.
C8_SectionsMatchItems ==
    Posts # {} =>
        LET content == PostedContent
            postedLines == IF content = <<>> THEN <<>> ELSE Split(content)
            heads == H2At(postedLines)
            active == Active
        IN  /\ Len(heads) = Len(active)
            /\ \A k \in 1..Len(heads) :
                  LET r == Fetched(active[k])
                      frag == Fragment(postedLines, heads, k)
                  IN  /\ postedLines[heads[k]][4] = r.repo
                      /\ Headings(frag) =
                            (IF Len(r.mergedPrs) > 0 THEN <<"Merged PRs">> ELSE <<>>)
                            \o (IF Len(r.closedIssues) > 0 THEN <<"Closed issues">> ELSE <<>>)
                      /\ \A j \in 1..Len(frag) : IsH3(frag[j]) =>
                            /\ j + 2 <= Len(frag)
                            /\ frag[j + 1] = <<"<ul>">>
                            /\ IsLi(frag[j + 2])
                      /\ Len(SelectSeq(frag, IsLi)) = Len(r.mergedPrs) + Len(r.closedIssues)
            /\ \A i \in 1..Len(repos) :
                  (\A j \in 1..Len(repos) : repos[j] = repos[i] => ~HasItems(Fetched(j)))
                  => \A t \in 1..Len(content) : content[t] # repos[i]

\* A post for two repos: the first had only a merged PR, the second nothing.
C8_Witness ==
    /\ Posts # {}
    /\ Len(repos) = 2
    /\ repos[1] # repos[2]
    /\ Len(Fetched(1).mergedPrs) = 1
    /\ Len(Fetched(1).closedIssues) = 0
    /\ ~HasItems(Fetched(2))
    /\ Len(Split(PostedContent)) = 5

-----------------------------------------------------------------------------
(* Properties of getDates *)

IsLeap(y) == (y % 4 = 0 /\ y % 100 # 0) \/ y % 400 = 0
DaysBeforeMonth == <<0, 31, 59, 90, 120, 151, 181, 212, 243, 273, 304, 334>>
\* The number of days from 1970-01-01 to the calendar date.
DayNumber(date) ==
    LET y == date[1]
        m == date[2]
        d == date[3]
    IN  365 * (y - 1970) + ((y - 1969) \div 4) - ((y - 1901) \div 100) + ((y - 1601) \div 400)
        + DaysBeforeMonth[m] + (IF m > 2 /\ IsLeap(y) THEN 1 ELSE 0) + (d - 1)

\* The order of ISO date strings.
DateLess(a, b) ==
    \/ a[1] < b[1]
    \/ a[1] = b[1] /\ a[2] < b[2]
    \/ a[1] = b[1] /\ a[2] = b[2] /\ a[3] < b[3]

\* C9: for every invocation, also one whose two clock reads fall on either
\* side of UTC midnight, the end date is the UTC date of the invocation, the
\* start date is before it, and it lies exactly 7 calendar days after the
\* start date.
C9_WindowIsSevenDays ==
    Applied =>
        /\ DayNumber(output.endDate) = input.t1 \div SecondsPerDay
        /\ DateLess(output.startDate, output.endDate)
        /\ DayNumber(output.endDate) - DayNumber(output.startDate) = 7

-----------------------------------------------------------------------------
(* Properties of sortActivitiesByLabel *)

Labels == {Bug, StackApi, StackDocs, NoStack}
HasStackPrefix(label) == label[1] = stackPrefix
StackLabels(item) == {item.labels[k] : k \in 1..Len(item.labels)} \cap {l \in Labels : HasStackPrefix(l)}
\* The item belongs in the group of this name.
Belongs(item, label) ==
    IF label = unlabeledTitle THEN StackLabels(item) = {}
    ELSE label \in StackLabels(item)

GroupItemsOf(groups, label) ==
    IF \E k \in 1..Len(groups) : groups[k].label = label
    THEN (CHOOSE g \in {groups[k] : k \in 1..Len(groups)} : g.label = label).items
    ELSE <<>>
Count(seq, x) == Cardinality({k \in 1..Len(seq) : seq[k] = x})

\* C6: grouping returns groups to its caller in which an item with one or
\* more 'stack:'-prefixed labels is in the group of each of these labels and
\* in no other, and an item with none is in 'Unlabeled' and in no other.
C6_GroupingIsExhaustiveFanOut ==
    (Applied /\ Len(input) > 0) =>
        /\ output.kind = "return"
        /\ output.value # undefined
        /\ \A label \in Labels \cup {unlabeledTitle} :
              \A k \in 1..Len(input) :
                 Count(GroupItemsOf(output.value, label), input[k])
                    = IF Belongs(input[k], label) THEN Count(input, input[k]) ELSE 0

\* The order of label names: character by character, by code point.
TokenOrder == <<"Unlabeled", "api", "bug", "docs", "no-", "stack:", "x">>
Rank(token) == CHOOSE k \in 1..Len(TokenOrder) : TokenOrder[k] = token
LabelLess(a, b) ==
    \E k \in 1..Len(b) :
        /\ \A j \in 1..(k - 1) : j <= Len(a) /\ a[j] = b[j]
        /\ (k > Len(a) \/ Rank(a[k]) < Rank(b[k]))

\* C7: grouping returns its groups in strictly ascending order of label name,
\* and the items of a group are in the order in which they were fetched.
C7_GroupsAscendingItemsInFetchOrder ==
    (Applied /\ Len(input) > 0) =>
        /\ output.kind = "return"
        /\ output.value # undefined
        /\ \A k \in 1..(Len(output.value) - 1) :
              LabelLess(output.value[k].label, output.value[k + 1].label)
        /\ \A k \in 1..Len(output.value) :
              output.value[k].items =
                 SelectSeq(input, LAMBDA item : Belongs(item, output.value[k].label))

-----------------------------------------------------------------------------
(* Properties of the rendering of a title *)

Entities == { <<"&", "a", "m", "p", ";">>, <<"&", "l", "t", ";">>, <<"&", "g", "t", ";">>,
              <<"&", "q", "u", "o", "t", ";">>, <<"&", "#", "3", "9", ";">> }
EntityChar(e) ==
    CASE e[2] = "a" -> "&"
      [] e[2] = "l" -> "<"
      [] e[2] = "g" -> ">"
      [] e[2] = "q" -> "\""
      [] OTHER      -> "'"
StartsWith(text, e) == Len(e) <= Len(text) /\ SubSeq(text, 1, Len(e)) = e

\* What a browser shows for the text: entities replaced by their character.
RECURSIVE Decode(_)
Decode(text) ==
    IF text = <<>> THEN <<>>
    ELSE IF \E e \in Entities : StartsWith(text, e)
    THEN LET e == CHOOSE x \in Entities : StartsWith(text, x)
         IN  <<EntityChar(e)>> \o Decode(SubSeq(text, Len(e) + 1, Len(text)))
    ELSE <<Head(text)>> \o Decode(Tail(text))

\* The text after "</a>: " on the only <li> line of the rendering.
LiAt == CHOOSE k \in 1..Len(output) : output[k] = "</a>: "
RenderedTitle == SubSeq(output, LiAt + 1, Len(output) - 2)

\* C10: the rendering of an item holds its title in escaped form only: no
\* '<' or '>' of the title is in the output, every '&' in it starts an
\* entity, and the text reads back as the title.
C10_TitleIsEscaped ==
    Applied =>
        /\ \A k \in 1..Len(output) : output[k] \notin {"<", ">"}
        /\ \A k \in 1..Len(output) : output[k] = "&" =>
              \E e \in Entities : StartsWith(SubSeq(output, k, Len(output)), e)
        /\ Decode(RenderedTitle) = input
        /\ input = <<"<", "a", ">">> => RenderedTitle = <<"&", "l", "t", ";", "a", "&", "g", "t", ";">>

\* A title with a tag and an ampersand has been rendered.
C10_Witness ==
    /\ Applied
    /\ input = <<"<", "&", ">">>
    /\ Len(RenderedTitle) = 13

-----------------------------------------------------------------------------
(* Properties of the order of the network calls *)

====
